---------------------------- MODULE Spec2Model ----------------------------
(***************************************************************************)
(* Non-determinism detection for a dbt project (DataRecce/dbt-tpch).       *)
(*                                                                         *)
(*   scripts/detect_base_mode.py   static classifier: manifest ->          *)
(*                                 analyze_models, analyze_sources,        *)
(*                                 scan_sql_patterns, classify             *)
(*   scripts/compiled_sql_diff.py  compiled-output diff: normalize_sql,    *)
(*                                 diff_compiled_files                     *)
(*                                                                         *)
(* Texts are sequences of one-character strings, so that the regular       *)
(* expressions of the scripts are modelled character by character.         *)
(***************************************************************************)
EXTENDS Integers, Sequences, FiniteSets, TLC

\* Bounds of the model.
MaxNodes == 2          \* nodes of a manifest (classifier runs)
MaxSources == 2        \* sources of a manifest
MaxParts == 4          \* fragments typed into one model's raw_code
MaxSqlParts == 3       \* fragments typed into one compiled SQL text
FillerModels == 50     \* clean table models of a large project, all alike

VARIABLES
    pc,               \* "input": the input is being written; "done": the script has
                      \* run; "failed": it has exited before its work; in the
                      \* harness, the approach that runs next
    parts,            \* the fragments typed so far into the text under construction
    manifest,         \* the manifest.json document read by load_manifest
    model_analysis,   \* detect_base_mode main(): result of analyze_models
    source_analysis,  \* detect_base_mode main(): result of analyze_sources
    sql_findings,     \* detect_base_mode main(): result of scan_sql_patterns
    classification,   \* detect_base_mode main(): result of classify
    sql_text,         \* the compiled SQL text passed to normalize_sql
    arg_db_name,      \* --db-name
    arg_schema_name,  \* the schema name passed to normalize_sql
    passes,           \* the texts normalize_sql returned, the text fed back in
    base_tree,        \* the compiled tree of the base target: path -> text
    current_tree,     \* the compiled tree of the current target: path -> text
    diff_findings,    \* compiled_sql_diff main(): findings
    use_manifest,     \* --use-manifest
    missing,          \* the required input paths that do not exist
    exit_code,        \* the exit code of the script, -1 while it has not exited
    stderr,           \* the messages written to standard error
    stdout,           \* the documents printed to standard output
    flagged           \* compare_detection_approaches main(): approach -> flagged set

outputs == <<model_analysis, source_analysis, sql_findings, classification>>

classifierVars == <<manifest, outputs>>

normVars == <<sql_text, arg_schema_name, passes>>

diffVars == <<base_tree, current_tree, diff_findings>>

procVars == <<missing, exit_code, stderr, stdout>>

harnessVars == <<flagged>>

vars ==
    <<pc, parts, arg_db_name, use_manifest, classifierVars, normVars, diffVars,
      procVars, harnessVars>>

---------------------------------------------------------------------------
\* Characters and texts.

LowerLetters ==
    <<"a", "b", "c", "d", "e", "f", "g", "h", "i", "j", "k", "l", "m",
      "n", "o", "p", "q", "r", "s", "t", "u", "v", "w", "x", "y", "z">>

UpperLetters ==
    <<"A", "B", "C", "D", "E", "F", "G", "H", "I", "J", "K", "L", "M",
      "N", "O", "P", "Q", "R", "S", "T", "U", "V", "W", "X", "Y", "Z">>

Digits == {"0", "1", "2", "3", "4", "5", "6", "7", "8", "9"}

Range(f) == {f[i] : i \in DOMAIN f}

\* \w of Python's re on str patterns (ASCII part).
IsWordChar(c) == c \in Range(LowerLetters) \cup Range(UpperLetters) \cup Digits \cup {"_"}

\* \s of Python's re (ASCII part).
WhiteSpace == {" ", "\t", "\n", "\r"}

\* str.lower() on one character: what re.IGNORECASE compares.
ToLower(c) ==
    IF c \in Range(UpperLetters)
    THEN LowerLetters[CHOOSE i \in DOMAIN UpperLetters : UpperLetters[i] = c]
    ELSE c

SetMin(S) == CHOOSE x \in S : \A y \in S : x <= y

RECURSIVE Flatten(_)
Flatten(ps) == IF ps = <<>> THEN <<>> ELSE Head(ps) \o Flatten(Tail(ps))

\* The literal lit stands in s at position i.
MatchLit(s, i, lit) ==
    /\ i >= 1
    /\ i + Len(lit) - 1 <= Len(s)
    /\ \A k \in 1..Len(lit) : s[i + k - 1] = lit[k]

\* The same, ignoring letter case (lit is in lower case).
MatchLitCI(s, i, lit) ==
    /\ i >= 1
    /\ i + Len(lit) - 1 <= Len(s)
    /\ \A k \in 1..Len(lit) : ToLower(s[i + k - 1]) = lit[k]

\* \b just before position i (i = Len(s) + 1: the end of the text).
WordBoundary(s, i) ==
    LET before == i > 1 /\ IsWordChar(s[i - 1])
        after  == i <= Len(s) /\ IsWordChar(s[i])
    IN  before # after

\* \s* from position i: the position of the first non-space character.
SkipSpace(s, i) == SetMin({j \in i..(Len(s) + 1) : j > Len(s) \/ s[j] \notin WhiteSpace})

---------------------------------------------------------------------------
\* detect_base_mode.py: CONDITIONAL_PATTERNS.

L_target == <<"t", "a", "r", "g", "e", "t">>
L_name == <<"n", "a", "m", "e">>
L_schema == <<"s", "c", "h", "e", "m", "a">>
L_current_date == <<"c", "u", "r", "r", "e", "n", "t", "_", "d", "a", "t", "e">>
L_current_timestamp ==
    <<"c", "u", "r", "r", "e", "n", "t", "_", "t", "i", "m", "e", "s", "t", "a", "m", "p">>
L_now == <<"n", "o", "w">>
L_getdate == <<"g", "e", "t", "d", "a", "t", "e">>

\* r"\btarget\s*\.\s*<attr>\b" matched at position i.
TargetAttrAt(s, i, attr) ==
    /\ WordBoundary(s, i)
    /\ MatchLit(s, i, L_target)
    /\ LET j == SkipSpace(s, i + Len(L_target))
       IN  /\ MatchLit(s, j, <<".">>)
           /\ LET k == SkipSpace(s, j + 1)
              IN  /\ MatchLit(s, k, attr)
                  /\ WordBoundary(s, k + Len(attr))

\* <word>\s*\(\s*\) matched at i, ignoring case: the position after ")", or 0.
CallEnd(s, i, word) ==
    IF ~MatchLitCI(s, i, word) THEN 0
    ELSE LET j == SkipSpace(s, i + Len(word))
         IN  IF ~MatchLit(s, j, <<"(">>) THEN 0
             ELSE LET k == SkipSpace(s, j + 1)
                  IN  IF MatchLit(s, k, <<")">>) THEN k + 1 ELSE 0

\* The positions after each alternative of
\* (current_date|current_timestamp|now\s*\(\s*\)|getdate\s*\(\s*\)) matched at i.
ClockAlternativeEnds(s, i) ==
    (IF MatchLitCI(s, i, L_current_date) THEN {i + Len(L_current_date)} ELSE {})
    \cup (IF MatchLitCI(s, i, L_current_timestamp) THEN {i + Len(L_current_timestamp)} ELSE {})
    \cup ({CallEnd(s, i, L_now), CallEnd(s, i, L_getdate)} \ {0})

\* r"\b(current_date|current_timestamp|now\s*\(\s*\)|getdate\s*\(\s*\))\b",
\* re.IGNORECASE, matched at position i.
ClockAt(s, i) ==
    /\ WordBoundary(s, i)
    /\ \E e \in ClockAlternativeEnds(s, i) : WordBoundary(s, e)

CONDITIONAL_PATTERNS ==
    << [name |-> "target.name", weight |-> "strong"],
       [name |-> "target.schema", weight |-> "strong"],
       [name |-> "current_date/now", weight |-> "moderate"] >>

\* pattern["regex"].search(code): the pattern matches somewhere in the text.
PatternSearch(name, s) ==
    CASE name = "target.name"      -> \E i \in 1..Len(s) : TargetAttrAt(s, i, L_name)
      [] name = "target.schema"    -> \E i \in 1..Len(s) : TargetAttrAt(s, i, L_schema)
      [] name = "current_date/now" -> \E i \in 1..Len(s) : ClockAt(s, i)

---------------------------------------------------------------------------
\* strip_sql_comments (the same two substitutions in both scripts).

\* Positions j > i + 1 where "*/" stands.
BlockClosers(s, i) == {j \in (i + 2)..(Len(s) - 1) : s[j] = "*" /\ s[j + 1] = "/"}

\* re.sub(r"/\*.*?\*/", "", code, flags=re.DOTALL), from position i on: the
\* text up to the leftmost match is kept, the match dropped, and the scan
\* goes on after it.
RECURSIVE StripBlockFrom(_, _)
StripBlockFrom(s, i) ==
    LET hits == {j \in i..Len(s) : MatchLit(s, j, <<"/", "*">>) /\ BlockClosers(s, j) # {}}
    IN  IF hits = {} THEN SubSeq(s, i, Len(s))
        ELSE SubSeq(s, i, SetMin(hits) - 1)
             \o StripBlockFrom(s, SetMin(BlockClosers(s, SetMin(hits))) + 2)

\* The end of the line that holds position i: the next "\n", or Len(s) + 1.
LineEnd(s, i) ==
    LET nl == {j \in i..Len(s) : s[j] = "\n"}
    IN  IF nl = {} THEN Len(s) + 1 ELSE SetMin(nl)

\* re.sub(r"--[^\n]*", "", code), from position i on.
RECURSIVE StripLineFrom(_, _)
StripLineFrom(s, i) ==
    LET hits == {j \in i..Len(s) : MatchLit(s, j, <<"-", "-">>)}
    IN  IF hits = {} THEN SubSeq(s, i, Len(s))
        ELSE SubSeq(s, i, SetMin(hits) - 1)
             \o StripLineFrom(s, LineEnd(s, SetMin(hits) + 2))

strip_sql_comments(code) == StripLineFrom(StripBlockFrom(code, 1), 1)


---------------------------------------------------------------------------
\* detect_base_mode.py: analyze_models.

Buckets == {"table", "view", "ephemeral", "incremental", "other"}

\* if mat in materialization_counts: ... else: materialization_counts["other"] += 1
BucketOf(mat) == IF mat \in Buckets THEN mat ELSE "other"

\* A bucketing that drops unknown kinds (used to mutate CountNode).
CountNodeKnownOnly(counts, mat) ==
    IF mat \in Buckets THEN [counts EXCEPT ![mat] = @ + 1] ELSE counts

CountNode(counts, mat) == [counts EXCEPT ![BucketOf(mat)] = @ + 1]

\* models[name] = {...}: a dict assignment keeps the place of a key it already holds.
DictPut(models, rec) ==
    IF \E k \in 1..Len(models) : models[k].name = rec.name
    THEN [k \in 1..Len(models) |-> IF models[k].name = rec.name THEN rec ELSE models[k]]
    ELSE Append(models, rec)

\* A filter that keeps the models of every package (used to mutate Retained).
RetainedAnyPackage(node, project_name) == node.resource_type \in {"model", "snapshot"}

\* The two "continue" tests at the top of the loop.
Retained(node, project_name) ==
    /\ node.resource_type \in {"model", "snapshot"}
    /\ node.package_name = project_name

\* One pass of the loop body over node, acc being the four collections.
AnalyzeNode(acc, node, project_name) ==
    IF ~Retained(node, project_name) THEN acc
    ELSE IF node.resource_type = "snapshot"
         THEN [acc EXCEPT !.snapshot_models = Append(@, node.name)]
         ELSE [acc EXCEPT
                 !.materialization_counts = CountNode(@, node.materialized),
                 !.models = DictPut(@, [name |-> node.name,
                                        materialized |-> node.materialized,
                                        raw_code |-> node.raw_code]),
                 !.incremental_models =
                     IF node.materialized = "incremental" THEN Append(@, node.name) ELSE @]

RECURSIVE AnalyzeNodes(_, _, _)
AnalyzeNodes(acc, nodes, project_name) ==
    IF nodes = <<>> THEN acc
    ELSE AnalyzeNodes(AnalyzeNode(acc, Head(nodes), project_name), Tail(nodes), project_name)

\* manifest.filler further models of the project, each a table with a name of
\* its own and SQL without any signature, are counted here and not listed.
analyze_models(m) ==
    LET acc == AnalyzeNodes([models |-> <<>>,
                             materialization_counts |-> [b \in Buckets |-> 0],
                             incremental_models |-> <<>>,
                             snapshot_models |-> <<>>],
                            m.nodes, m.project_name)
    IN  [total_models |-> Len(acc.models) + m.filler,
         materialization_counts |->
             [acc.materialization_counts EXCEPT !["table"] = @ + m.filler],
         incremental_models |-> acc.incremental_models,
         snapshot_models |-> acc.snapshot_models,
         models |-> acc.models]

---------------------------------------------------------------------------
\* detect_base_mode.py: scan_sql_patterns.

L_is_incremental ==
    <<"i", "s", "_", "i", "n", "c", "r", "e", "m", "e", "n", "t", "a", "l", "(", ")">>

\* The naive detector, which also flags the conditional-materialization marker
\* (used to mutate ModelPatterns).
NaiveModelPatterns(raw_code) ==
    LET code_only == strip_sql_comments(raw_code)
        Hit(p) == PatternSearch(p.name, code_only)
    IN  SelectSeq(CONDITIONAL_PATTERNS, Hit)
        \o (IF \E i \in 1..Len(code_only) : MatchLit(code_only, i, L_is_incremental)
            THEN << [name |-> "is_incremental", weight |-> "strong"] >>
            ELSE <<>>)

\* The patterns of the table that match the comment-stripped code, in table order.
ModelPatterns(raw_code) ==
    LET code_only == strip_sql_comments(raw_code)
        Hit(p) == PatternSearch(p.name, code_only)
    IN  SelectSeq(CONDITIONAL_PATTERNS, Hit)

RECURSIVE ScanModels(_)
ScanModels(models) ==
    IF models = <<>> THEN <<>>
    ELSE LET model == Head(models)
             model_patterns ==
                 IF model.raw_code = <<>> THEN <<>> ELSE ModelPatterns(model.raw_code)
         IN  (IF model_patterns # <<>>
              THEN << [name |-> model.name,
                       materialized |-> model.materialized,
                       patterns |-> model_patterns] >>
              ELSE <<>>) \o ScanModels(Tail(models))

scan_sql_patterns(ma) == ScanModels(ma.models)

---------------------------------------------------------------------------
\* detect_base_mode.py: analyze_sources.

\* "if event_time:" is false for None and for the empty string.
Truthy(event_time) == event_time \notin {"None", ""}

analyze_sources(m) ==
    LET with == SelectSeq(m.sources, Truthy)
    IN  [total_sources |-> Len(m.sources),
         with_event_time |-> Len(with),
         without_event_time |-> Len(m.sources) - Len(with)]

---------------------------------------------------------------------------
\* detect_base_mode.py: classify.

\* with_event_time / total_sources * 100, kept as an exact fraction.
event_time_pct(sa) ==
    IF sa.total_sources > 0
    THEN [num |-> sa.with_event_time * 100, den |-> sa.total_sources]
    ELSE [num |-> 0, den |-> 1]

PctIs100(pct) == pct.num = 100 * pct.den

PctIsPositive(pct) == pct.num > 0

\* A recommendation that also follows the incremental count, as the detector
\* did before the signature table was narrowed (used to mutate Recommendation).
RecommendationByIncremental(conditional_count, inc_count) ==
    IF conditional_count > 0 \/ inc_count > 0 THEN "isolated_base" ELSE "shared_base"

\* recommendation = "shared_base", set to "isolated_base" under Signal 1.
Recommendation(conditional_count, inc_count) ==
    IF conditional_count > 0 THEN "isolated_base" ELSE "shared_base"

\* A confidence that is high as soon as some source has event_time (used to
\* mutate Confidence).
ConfidencePartialCoverage(conditional_count, pct) ==
    IF conditional_count > 0 /\ PctIsPositive(pct) THEN "high"
    ELSE IF conditional_count > 0 THEN "medium"
    ELSE "high"

\* A confidence that takes several flagged models for certainty (used to
\* mutate Confidence).
ConfidenceManyFlagged(conditional_count, pct) ==
    IF conditional_count > 0 /\ (PctIs100(pct) \/ conditional_count > 1) THEN "high"
    ELSE IF conditional_count > 0 THEN "medium"
    ELSE "high"

\* "Determine confidence".
Confidence(conditional_count, pct) ==
    IF conditional_count > 0 /\ PctIs100(pct) THEN "high"
    ELSE IF conditional_count > 0 THEN "medium"
    ELSE "high"

Signal(key, weight, direction) ==
    [signal |-> key, weight |-> weight, direction |-> direction]

\* Signal 1: models with non-deterministic SQL patterns.
Signal1(conditional_count) ==
    IF conditional_count > 0
    THEN << Signal("non_deterministic_sql", "strong", "isolated_base") >>
    ELSE << Signal("deterministic_sql", "strong", "shared_base") >>

IsFlagged(name, findings) == \E k \in 1..Len(findings) : findings[k].name = name

\* safe_incremental: the incremental models that no finding names.
SafeIncremental(ma, findings) ==
    LET Safe(model) ==
            model.materialized = "incremental" /\ ~IsFlagged(model.name, findings)
    IN  SelectSeq(ma.models, Safe)

\* Signal 2: incremental models with safe else branches.
Signal2(ma, findings) ==
    IF SafeIncremental(ma, findings) # <<>>
    THEN << Signal("safe_incremental", "moderate", "shared_base") >>
    ELSE <<>>

\* Signal 3: materialization profile.
Signal3(total, view_count, table_count, conditional_count) ==
    IF total > 0 /\ view_count = total /\ conditional_count = 0
    THEN << Signal("all_views", "moderate", "shared_base") >>
    ELSE IF table_count > 0 /\ conditional_count = 0
         THEN << Signal("table_models", "weak", "shared_base") >>
         ELSE <<>>

\* An event_time signal that is also emitted for a project without sources
\* (used to mutate Signal4).
Signal4WithoutSources(sa, pct) ==
    IF PctIs100(pct)
    THEN << Signal("event_time_coverage", "moderate", "enables_isolation") >>
    ELSE IF PctIsPositive(pct)
         THEN << Signal("event_time_coverage", "weak", "partial_isolation") >>
         ELSE << Signal("event_time_coverage", "moderate", "blocks_sample") >>

\* Signal 4: event_time coverage.
Signal4(sa, pct) ==
    IF sa.total_sources > 0
    THEN IF PctIs100(pct)
         THEN << Signal("event_time_coverage", "moderate", "enables_isolation") >>
         ELSE IF PctIsPositive(pct)
              THEN << Signal("event_time_coverage", "weak", "partial_isolation") >>
              ELSE << Signal("event_time_coverage", "moderate", "blocks_sample") >>
    ELSE <<>>

\* "if total > 50".
ScaleThreshold == 50

\* Signal 5: project scale.
Signal5(total) ==
    IF total > ScaleThreshold
    THEN << Signal("project_scale", "weak", "isolated_base") >>
    ELSE <<>>

\* mat_breakdown: the findings counted by materialization.
MatBreakdown(findings) ==
    LET mats == {findings[k].materialized : k \in 1..Len(findings)}
    IN  [mat \in mats |->
            Cardinality({k \in 1..Len(findings) : findings[k].materialized = mat})]

\* A classifier that reports the project-scale signal first (used to mutate
\* classify).
ClassifyScaleFirst(ma, sa, findings) ==
    LET conditional_count == Len(findings)
        total == ma.total_models
        pct == event_time_pct(sa)
    IN  [recommendation |-> Recommendation(conditional_count,
                                           ma.materialization_counts["incremental"]),
         confidence |-> Confidence(conditional_count, pct),
         signals |-> Signal5(total)
                     \o Signal1(conditional_count)
                     \o Signal2(ma, findings)
                     \o Signal3(total, ma.materialization_counts["view"],
                                ma.materialization_counts["table"], conditional_count)
                     \o Signal4(sa, pct),
         conditional_models |-> [total |-> conditional_count,
                                 by_materialization |-> MatBreakdown(findings)]]

classify(ma, sa, findings) ==
    LET conditional_count == Len(findings)
        total == ma.total_models
        table_count == ma.materialization_counts["table"]
        view_count == ma.materialization_counts["view"]
        inc_count == ma.materialization_counts["incremental"]
        pct == event_time_pct(sa)
    IN  [recommendation |-> Recommendation(conditional_count, inc_count),
         confidence |-> Confidence(conditional_count, pct),
         signals |-> Signal1(conditional_count)
                     \o Signal2(ma, findings)
                     \o Signal3(total, view_count, table_count, conditional_count)
                     \o Signal4(sa, pct)
                     \o Signal5(total),
         conditional_models |-> [total |-> conditional_count,
                                 by_materialization |-> MatBreakdown(findings)]]

---------------------------------------------------------------------------
\* compiled_sql_diff.py: normalize_sql.

L_schema_placeholder == <<"_", "_", "S", "C", "H", "E", "M", "A", "_", "_">>

L_cast_open == <<"c", "a", "s", "t", "(", "'">>

L_batch_id_tail ==
    <<"'", " ", "a", "s", " ", "v", "a", "r", "c", "h", "a", "r", ")", " ",
      "a", "s", " ", "d", "b", "t", "_", "b", "a", "t", "c", "h", "_", "i",
      "d">>

L_batch_id_placeholder ==
    <<"c", "a", "s", "t", "(", "'", "_", "_", "B", "A", "T", "C", "H", "_",
      "I", "D", "_", "_", "'", " ", "a", "s", " ", "v", "a", "r", "c", "h",
      "a", "r", ")", " ", "a", "s", " ", "d", "b", "t", "_", "b", "a", "t",
      "c", "h", "_", "i", "d">>

L_batch_ts_tail ==
    <<"'", " ", "a", "s", " ", "t", "i", "m", "e", "s", "t", "a", "m", "p",
      ")", " ", "a", "s", " ", "d", "b", "t", "_", "b", "a", "t", "c", "h",
      "_", "t", "s">>

L_batch_ts_placeholder ==
    <<"c", "a", "s", "t", "(", "'", "_", "_", "B", "A", "T", "C", "H", "_",
      "T", "S", "_", "_", "'", " ", "a", "s", " ", "t", "i", "m", "e", "s",
      "t", "a", "m", "p", ")", " ", "a", "s", " ", "d", "b", "t", "_", "b",
      "a", "t", "c", "h", "_", "t", "s">>

\* [0-9a-f-]
HexChars == Digits \cup {"a", "b", "c", "d", "e", "f", "-"}

\* re.sub of a literal (re.escape'd) pattern by a literal, from position i on;
\* bounded: the pattern starts with \b.
RECURSIVE SubLiteralFrom(_, _, _, _, _)
SubLiteralFrom(s, i, pat, rep, bounded) ==
    LET hits == {j \in i..Len(s) : MatchLit(s, j, pat) /\ (bounded => WordBoundary(s, j))}
    IN  IF hits = {} THEN SubSeq(s, i, Len(s))
        ELSE SubSeq(s, i, SetMin(hits) - 1) \o rep
             \o SubLiteralFrom(s, SetMin(hits) + Len(pat), pat, rep, bounded)

\* rf"\b{re.escape(db_name)}\.{re.escape(schema_name)}\." -> f"{db_name}.__SCHEMA__."
ReplaceDottedSchema(text, db_name, schema_name) ==
    SubLiteralFrom(text, 1, db_name \o <<".">> \o schema_name \o <<".">>,
                   db_name \o <<".">> \o L_schema_placeholder \o <<".">>, TRUE)

\* rf'"{re.escape(schema_name)}"' -> '"__SCHEMA__"'
ReplaceQuotedSchema(text, schema_name) ==
    SubLiteralFrom(text, 1, <<"\"">> \o schema_name \o <<"\"">>,
                   <<"\"">> \o L_schema_placeholder \o <<"\"">>, FALSE)

\* A bare substring replacement of the schema name (used to mutate
\* ReplaceSchemaRefs).
ReplaceSchemaEverywhere(text, db_name, schema_name) ==
    IF db_name # <<>> /\ schema_name # <<>>
    THEN SubLiteralFrom(text, 1, schema_name, L_schema_placeholder, FALSE)
    ELSE text

\* "if db_name and schema_name:" and the two substitutions under it.
ReplaceSchemaRefs(text, db_name, schema_name) ==
    IF db_name # <<>> /\ schema_name # <<>>
    THEN ReplaceQuotedSchema(ReplaceDottedSchema(text, db_name, schema_name), schema_name)
    ELSE text

\* The first position from i on whose character is not in class.
ClassRunEnd(s, i, class) ==
    SetMin({j \in i..(Len(s) + 1) : j > Len(s) \/ s[j] \notin class})

\* r"cast\('[0-9a-f-]+' as varchar\) as dbt_batch_id" matched at i: the
\* position after the match, or 0.
BatchIdEnd(s, i) ==
    IF ~MatchLit(s, i, L_cast_open) THEN 0
    ELSE LET j == ClassRunEnd(s, i + Len(L_cast_open), HexChars)
         IN  IF j > i + Len(L_cast_open) /\ MatchLit(s, j, L_batch_id_tail)
             THEN j + Len(L_batch_id_tail)
             ELSE 0

\* r"cast\('[^']+' as timestamp\) as dbt_batch_ts" matched at i: the position
\* after the match, or 0.
BatchTsEnd(s, i) ==
    IF ~MatchLit(s, i, L_cast_open) THEN 0
    ELSE LET j == ClassRunEnd(s, i + Len(L_cast_open), Range(s) \ {"'"})
         IN  IF j > i + Len(L_cast_open) /\ MatchLit(s, j, L_batch_ts_tail)
             THEN j + Len(L_batch_ts_tail)
             ELSE 0

RECURSIVE SubBatchIdFrom(_, _)
SubBatchIdFrom(s, i) ==
    LET hits == {j \in i..Len(s) : BatchIdEnd(s, j) # 0}
    IN  IF hits = {} THEN SubSeq(s, i, Len(s))
        ELSE SubSeq(s, i, SetMin(hits) - 1) \o L_batch_id_placeholder
             \o SubBatchIdFrom(s, BatchIdEnd(s, SetMin(hits)))

RECURSIVE SubBatchTsFrom(_, _)
SubBatchTsFrom(s, i) ==
    LET hits == {j \in i..Len(s) : BatchTsEnd(s, j) # 0}
    IN  IF hits = {} THEN SubSeq(s, i, Len(s))
        ELSE SubSeq(s, i, SetMin(hits) - 1) \o L_batch_ts_placeholder
             \o SubBatchTsFrom(s, BatchTsEnd(s, SetMin(hits)))

\* "if strip_batch_metadata:" (the default) and the two substitutions under it.
StripBatchMetadata(text) == SubBatchTsFrom(SubBatchIdFrom(text, 1), 1)

\* re.sub(r"[ \t]+\n", "\n", normalized), from position i on.
RECURSIVE StripTrailingFrom(_, _)
StripTrailingFrom(s, i) ==
    LET RunEnd(j) == ClassRunEnd(s, j, {" ", "\t"})
        hits == {j \in i..Len(s) : RunEnd(j) > j /\ RunEnd(j) <= Len(s) /\ s[RunEnd(j)] = "\n"}
    IN  IF hits = {} THEN SubSeq(s, i, Len(s))
        ELSE SubSeq(s, i, SetMin(hits) - 1) \o <<"\n">>
             \o StripTrailingFrom(s, RunEnd(SetMin(hits)) + 1)

\* normalize_sql with strip_comments and strip_batch_metadata left at True.
normalize_sql(sql, db_name, schema_name) ==
    StripTrailingFrom(
        StripBatchMetadata(
            ReplaceSchemaRefs(strip_sql_comments(sql), db_name, schema_name)), 1)

---------------------------------------------------------------------------
\* compiled_sql_diff.py: diff_compiled_files.

\* The *.sql files a compiled tree may hold, in sorted() order; a file is
\* named by its path relative to the tree, which is also its stem.
SqlPaths == <<"m", "n">>

FilesOf(dir) == SelectSeq(SqlPaths, LAMBDA path : path \in DOMAIN dir)

\* A line on standard error: what it is, the path and the command it names.
Message(kind, path, command) == [kind |-> kind, path |-> path, command |-> command]

\* load_manifest when the path does not exist: the two lines it prints
\* before sys.exit(1).
ManifestNotFound ==
    << Message("error", "manifest", ""),
       Message("hint", "", "dbt parse") >>

\* str.splitlines(keepends=True), the texts holding no line break but "\n".
SplitLines(s) ==
    LET ends == {i \in 1..Len(s) : s[i] = "\n" \/ i = Len(s)}
        End(k) == IF k = 0 THEN 0
                  ELSE CHOOSE e \in ends : Cardinality({x \in ends : x <= e}) = k
    IN  [k \in 1..Cardinality(ends) |-> SubSeq(s, End(k - 1) + 1, End(k))]

\* difflib's find_longest_match over two sequences of lines: the longest
\* block of lines the two share, the one that starts earliest in xs and,
\* among those, earliest in ys; size 0 when they share no line.
LongestMatch(xs, ys) ==
    LET blocks == {blk \in (1..Len(xs)) \X (1..Len(ys)) \X (1..Len(xs)) :
                      /\ blk[1] + blk[3] - 1 <= Len(xs)
                      /\ blk[2] + blk[3] - 1 <= Len(ys)
                      /\ \A d \in 0..(blk[3] - 1) : xs[blk[1] + d] = ys[blk[2] + d]}
        Better(p, q) == \/ p[3] > q[3]
                        \/ p[3] = q[3] /\ p[1] < q[1]
                        \/ p[3] = q[3] /\ p[1] = q[1] /\ p[2] <= q[2]
    IN  IF blocks = {} THEN <<0, 0, 0>>
        ELSE CHOOSE p \in blocks : \A q \in blocks : Better(p, q)

\* The "-" and "+" lines of difflib.unified_diff over two sequences of
\* lines, in the order of the diff: around the longest matching block, the
\* lines before it and the lines after it are diffed in the same way; lines
\* that share nothing are a removed block followed by an added block.
RECURSIVE DiffBody(_, _)
DiffBody(xs, ys) ==
    LET blk == LongestMatch(xs, ys)
    IN  IF blk[3] = 0
        THEN [k \in 1..Len(xs) |-> <<"-">> \o xs[k]]
             \o [k \in 1..Len(ys) |-> <<"+">> \o ys[k]]
        ELSE DiffBody(SubSeq(xs, 1, blk[1] - 1), SubSeq(ys, 1, blk[2] - 1))
             \o DiffBody(SubSeq(xs, blk[1] + blk[3], Len(xs)),
                         SubSeq(ys, blk[2] + blk[3], Len(ys)))

\* list(difflib.unified_diff(base_sql.splitlines(keepends=True), ...)), its
\* two header lines, its "@@" lines and its context lines left out.
UnifiedDiffBody(base_sql, current_sql) ==
    DiffBody(SplitLines(base_sql), SplitLines(current_sql))

\* changed_lines: the lines of the diff that start with "+" or "-" and
\* with neither "+++" nor "---" (the two header lines start so, and so does
\* an added line whose text starts with "++").
ChangedLines(base_sql, current_sql) ==
    LET Kept(line) == /\ ~MatchLit(line, 1, <<"+", "+", "+">>)
                      /\ ~MatchLit(line, 1, <<"-", "-", "-">>)
    IN  SelectSeq(UnifiedDiffBody(base_sql, current_sql), Kept)

\* findings.append({...}): the fields of a finding the reports read.
Finding(model, status, diff_lines) ==
    [model |-> model, status |-> status, diff_lines |-> diff_lines]

\* The loop body for one file of the base tree.
DiffFile(rel_path, base_dir, current_dir, db_name, base_schema, current_schema) ==
    IF rel_path \notin DOMAIN current_dir
    THEN << Finding(rel_path, "missing_in_current", <<>>) >>
    ELSE LET base_sql == normalize_sql(base_dir[rel_path], db_name, base_schema)
             current_sql == normalize_sql(current_dir[rel_path], db_name, current_schema)
         IN  IF base_sql = current_sql
             THEN <<>>
             ELSE << Finding(rel_path, "non_deterministic",
                             ChangedLines(base_sql, current_sql)) >>

RECURSIVE DiffFiles(_, _, _, _, _, _)
DiffFiles(files, base_dir, current_dir, db_name, base_schema, current_schema) ==
    IF files = <<>> THEN <<>>
    ELSE DiffFile(Head(files), base_dir, current_dir, db_name, base_schema, current_schema)
         \o DiffFiles(Tail(files), base_dir, current_dir, db_name, base_schema, current_schema)

\* "Check for files only in current".
OnlyInCurrent(base_dir, current_dir) ==
    LET Missing(path) == path \in DOMAIN current_dir /\ path \notin DOMAIN base_dir
        only == SelectSeq(SqlPaths, Missing)
    IN  [k \in 1..Len(only) |-> Finding(only[k], "missing_in_base", <<>>)]

diff_compiled_files(base_dir, current_dir, db_name, base_schema, current_schema) ==
    DiffFiles(FilesOf(base_dir), base_dir, current_dir, db_name, base_schema, current_schema)
    \o OnlyInCurrent(base_dir, current_dir)

---------------------------------------------------------------------------
\* compiled_sql_diff.py: diff_manifests. A manifest is read as its nodes,
\* unique id -> compiled_code; the ids of SqlPaths are the model nodes of the
\* project (named as their id), every other id a node of another kind.

\* resource_type == "model" and package_name == project_name
IsProjectModel(uid) == uid \in Range(SqlPaths)

\* "Build lookup for current manifest".
CurrentNodes(current_manifest) ==
    {uid \in DOMAIN current_manifest : IsProjectModel(uid)}

\* The loop body for one node of the base manifest.
DiffNode(uid, base_manifest, current_manifest, db_name, base_schema, current_schema) ==
    IF uid \notin CurrentNodes(current_manifest)
    THEN << Finding(uid, "missing_in_current", <<>>) >>
    ELSE IF base_manifest[uid] = <<>> \/ current_manifest[uid] = <<>>
    THEN <<>>
    ELSE LET base_norm == normalize_sql(base_manifest[uid], db_name, base_schema)
             current_norm == normalize_sql(current_manifest[uid], db_name, current_schema)
         IN  IF base_norm = current_norm
             THEN <<>>
             ELSE << Finding(uid, "non_deterministic",
                             ChangedLines(base_norm, current_norm)) >>

RECURSIVE DiffNodes(_, _, _, _, _, _)
DiffNodes(uids, base_manifest, current_manifest, db_name, base_schema, current_schema) ==
    IF uids = <<>> THEN <<>>
    ELSE DiffNode(Head(uids), base_manifest, current_manifest,
                  db_name, base_schema, current_schema)
         \o DiffNodes(Tail(uids), base_manifest, current_manifest,
                      db_name, base_schema, current_schema)

diff_manifests(base_manifest, current_manifest, db_name, base_schema, current_schema) ==
    DiffNodes(FilesOf(base_manifest), base_manifest, current_manifest,
              db_name, base_schema, current_schema)

---------------------------------------------------------------------------
\* compiled_sql_diff.py: what main() prints.

IsNonDeterministic(f) == f.status = "non_deterministic"

\* f["status"].startswith("missing")
IsMissing(f) == f.status \in {"missing_in_base", "missing_in_current"}

\* format_report: the counts of its summary lines (the line of the missing
\* count is printed only when there are missing models) and its verdict.
format_report(findings, approach) ==
    LET non_det == SelectSeq(findings, IsNonDeterministic)
        missing_models == SelectSeq(findings, IsMissing)
    IN  [format |-> "report",
         approach |-> approach,
         non_deterministic_models |-> Len(non_det),
         total_checked |-> Len(findings),
         missing_in_one_target |-> Len(missing_models),
         listed |-> [k \in 1..Len(non_det) |-> non_det[k].model],
         shared_base_is_safe |-> non_det = <<>>]

\* The JSON document of --json.
JsonOutput(findings, approach) ==
    LET non_det == SelectSeq(findings, IsNonDeterministic)
    IN  [format |-> "json",
         approach |-> approach,
         total_findings |-> Len(findings),
         non_deterministic |->
             [k \in 1..Len(non_det) |->
                 [model |-> non_det[k].model, diff_lines |-> non_det[k].diff_lines]]]

\* open() on a path that does not exist: the traceback of the uncaught
\* FileNotFoundError, which names the path.
Traceback(path) == << Message("traceback", path, "") >>

\* "base directory not found" / "current directory not found" and the hint
\* under it.
DirectoryNotFound(side) ==
    << Message("error", side, ""),
       Message("hint", "", IF side = "base" THEN "dbt compile --target pg-base"
                                            ELSE "dbt compile --target pg-current") >>

---------------------------------------------------------------------------
\* The inputs: manifests and template sources.

CleanSql == <<"s", "e", "l", "e", "c", "t", " ", "1">>
\* The incremental model of the specification's precision example.
MarkerSql ==
    <<"{", "%", " ", "i", "f", " ", "i", "s", "_", "i", "n", "c", "r", "e",
      "m", "e", "n", "t", "a", "l", "(", ")", " ", "%", "}", "w", "h", "e",
      "r", "e", " ", "d", " ", ">", " ", "(", "s", "e", "l", "e", "c", "t",
      " ", "m", "a", "x", "(", "d", ")", " ", "f", "r", "o", "m", " ", "{",
      "{", " ", "t", "h", "i", "s", " ", "}", "}", ")", "{", "%", " ", "e",
      "n", "d", "i", "f", " ", "%", "}">>
TargetSql == <<"t", "a", "r", "g", "e", "t", ".", "n", "a", "m", "e">>
ClockSql == <<"c", "u", "r", "r", "e", "n", "t", "_", "d", "a", "t", "e">>
CommentedSql == <<"-", "-", " ", "t", "a", "r", "g", "e", "t", ".", "n", "a", "m", "e">>

NodeKind(rt, pkg, mat, code) ==
    [resource_type |-> rt, package_name |-> pkg, materialized |-> mat, raw_code |-> code]

\* What a node of the manifest may be: models of the project of every
\* materialization, with and without signatures; a snapshot; a model of an
\* imported package; a test.
NodeKinds ==
    { NodeKind("model", "tpch", "table", CleanSql),
      NodeKind("model", "tpch", "view", CleanSql),
      NodeKind("model", "tpch", "view", ClockSql),
      NodeKind("model", "tpch", "incremental", MarkerSql),
      NodeKind("model", "tpch", "incremental", TargetSql),
      NodeKind("model", "tpch", "unknown", CommentedSql),
      NodeKind("model", "tpch", "ephemeral", <<>>),
      NodeKind("snapshot", "tpch", "snapshot", CleanSql),
      NodeKind("model", "dbt_utils", "table", TargetSql),
      NodeKind("test", "tpch", "test", CleanSql) }

NodeNames == {"a", "b"}

\* config.event_time of a source: absent, or a column name.
EventTimes == {"None", "ts"}

\* The fragments a template source is typed from.
P_target_name == TargetSql
P_now == <<"n", "o", "w", "(", ")">>
P_is_incremental == L_is_incremental
P_this == <<"{", "{", " ", "t", "h", "i", "s", " ", "}", "}">>
P_dashes == <<"-", "-">>
P_newline == <<"\n">>
P_open == <<"/", "*">>
P_close == <<"*", "/">>
P_quoted_dashes == <<"'", "-", "-", "'">>
P_tar == <<"t", "a", "r">>
P_get_name == <<"g", "e", "t", ".", "n", "a", "m", "e">>

MarkerParts == {P_is_incremental, P_this}

SourceParts ==
    MarkerParts \cup {P_target_name, P_now, P_dashes, P_newline, P_open, P_close,
                      P_quoted_dashes, P_tar, P_get_name}

\* The fragments a compiled SQL text is typed from.
N_tpch == <<"t", "p", "c", "h">>
N_base == <<"b", "a", "s", "e">>
N_current == <<"c", "u", "r", "r", "e", "n", "t">>
L_current_row == <<"c", "u", "r", "r", "e", "n", "t", " ", "r", "o", "w">>
P_orders == <<"o", "r", "d", "e", "r", "s">>
P_select == <<"s", "e", "l", "e", "c", "t", " ", "x", " ", "f", "r", "o", "m", " ">>
P_quote == <<"\"">>
P_space == <<" ">>

DottedRef(db, schema) == db \o <<".">> \o schema \o <<".">>

QuotedRef(schema) == <<"\"">> \o schema \o <<"\"">>

BatchId(uuid) == L_cast_open \o uuid \o L_batch_id_tail

SqlParts ==
    {DottedRef(N_tpch, N_current), QuotedRef(N_current), N_current, L_current_row,
     P_quote, P_orders, P_space, P_newline, P_dashes, BatchId(<<"1", "a">>)}

\* The text both compiled files of a model share.
SharedParts == {P_select, P_orders, P_newline, L_current_row, QuotedRef(N_current)}

\* --base-schema and --current-schema (their defaults).
BaseSchema == N_base

CurrentSchema == N_current

NoAnalysis ==
    [total_models |-> 0,
     materialization_counts |-> [b \in Buckets |-> 0],
     incremental_models |-> <<>>,
     snapshot_models |-> <<>>,
     models |-> <<>>]

NoSources == [total_sources |-> 0, with_event_time |-> 0, without_event_time |-> 0]

NoClassification ==
    [recommendation |-> "none", confidence |-> "none", signals |-> <<>>,
     conditional_models |-> [total |-> 0, by_materialization |-> <<>>]]

NoOutput ==
    /\ model_analysis = NoAnalysis
    /\ source_analysis = NoSources
    /\ sql_findings = <<>>
    /\ classification = NoClassification

EmptyManifest == [project_name |-> "tpch", nodes |-> <<>>, sources |-> <<>>, filler |-> 0]

\* The parts of the state a run of the other script leaves alone.
NoClassifier == manifest = EmptyManifest /\ NoOutput

NoNormalizer == sql_text = <<>> /\ arg_schema_name = <<>> /\ passes = <<>>

NoDiff ==
    base_tree = <<>> /\ current_tree = <<>> /\ diff_findings = <<>> /\ use_manifest = FALSE

\* The script has not exited and has written nothing.
NotRun == exit_code = -1 /\ stderr = <<>> /\ stdout = <<>>

NoHarness == flagged = <<>>

---------------------------------------------------------------------------
\* detect_base_mode.py on a manifest: Spec.

\* A manifest of project tpch without nodes or sources, or no manifest at
\* the path given.
Init ==
    /\ pc = "input"
    /\ parts = <<>>
    /\ arg_db_name = <<>>
    /\ manifest = EmptyManifest
    /\ missing \in {{}, {"manifest"}}
    /\ NotRun
    /\ NoOutput
    /\ NoNormalizer
    /\ NoDiff
    /\ NoHarness

\* The project gains a node.
AddNode ==
    /\ pc = "input"
    /\ "manifest" \notin missing
    /\ Len(manifest.nodes) < MaxNodes
    /\ \E kind \in NodeKinds, name \in NodeNames :
          manifest' = [manifest EXCEPT !.nodes =
              Append(@, [unique_id |-> Len(manifest.nodes) + 1, name |-> name,
                         resource_type |-> kind.resource_type,
                         package_name |-> kind.package_name,
                         materialized |-> kind.materialized,
                         raw_code |-> kind.raw_code])]
    /\ UNCHANGED <<pc, parts, arg_db_name, outputs, normVars, diffVars,
                 use_manifest, procVars, harnessVars>>

\* The project gains a source.
AddSource ==
    /\ pc = "input"
    /\ "manifest" \notin missing
    /\ Len(manifest.sources) < MaxSources
    /\ \E event_time \in EventTimes :
          manifest' = [manifest EXCEPT !.sources = Append(@, event_time)]
    /\ UNCHANGED <<pc, parts, arg_db_name, outputs, normVars, diffVars,
                 use_manifest, procVars, harnessVars>>

\* The project is a large one.
AddFiller ==
    /\ pc = "input"
    /\ "manifest" \notin missing
    /\ manifest.filler = 0
    /\ manifest' = [manifest EXCEPT !.filler = FillerModels]
    /\ UNCHANGED <<pc, parts, arg_db_name, outputs, normVars, diffVars,
                 use_manifest, procVars, harnessVars>>

\* detect_base_mode.py main(): load_manifest, the four calls on the loaded
\* manifest, and the document printed (as JSON or as a report, the same data).
Main ==
    /\ pc = "input"
    /\ IF "manifest" \in missing
       THEN /\ pc' = "failed"
            /\ stderr' = stderr \o ManifestNotFound
            /\ exit_code' = 1
            /\ UNCHANGED <<outputs, stdout>>
       ELSE /\ pc' = "done"
            /\ model_analysis' = analyze_models(manifest)
            /\ source_analysis' = analyze_sources(manifest)
            /\ sql_findings' = scan_sql_patterns(model_analysis')
            /\ classification' = classify(model_analysis', source_analysis', sql_findings')
            /\ stdout' = Append(stdout, [sql_findings |-> sql_findings',
                                         classification |-> classification'])
            /\ exit_code' = 0
            /\ UNCHANGED stderr
    /\ UNCHANGED <<parts, arg_db_name, manifest, normVars, diffVars,
                   use_manifest, missing, harnessVars>>

Next == AddNode \/ AddSource \/ AddFiller \/ Main

Spec == Init /\ [][Next]_vars

---------------------------------------------------------------------------
\* detect_base_mode.py on one model whose raw_code is typed: SpecScan.

\* A manifest whose one node is the model "m", its raw_code still empty.
InitScan ==
    /\ pc = "input"
    /\ parts = <<>>
    /\ arg_db_name = <<>>
    /\ manifest = [EmptyManifest EXCEPT !.nodes =
                      << [unique_id |-> 1, name |-> "m", resource_type |-> "model",
                          package_name |-> "tpch", materialized |-> "table",
                          raw_code |-> <<>>] >>]
    /\ missing = {}
    /\ NotRun
    /\ NoOutput
    /\ NoNormalizer
    /\ NoDiff
    /\ NoHarness

\* A fragment is typed at the end of the raw_code of model "m".
AppendPart ==
    /\ pc = "input"
    /\ "manifest" \notin missing
    /\ Len(parts) < MaxParts
    /\ \E p \in SourceParts :
          /\ parts' = Append(parts, p)
          /\ manifest' = [manifest EXCEPT !.nodes[1].raw_code = @ \o p]
    /\ UNCHANGED <<pc, arg_db_name, outputs, normVars, diffVars,
                 use_manifest, procVars, harnessVars>>

NextScan == AppendPart \/ Main

SpecScan == InitScan /\ [][NextScan]_vars

---------------------------------------------------------------------------
\* normalize_sql on a typed text, and again on what it returned: SpecNorm.

\* The schema is "current"; the database name is known or not.
InitNorm ==
    /\ pc = "input"
    /\ parts = <<>>
    /\ arg_db_name \in {<<>>, N_tpch}
    /\ sql_text = <<>>
    /\ arg_schema_name = N_current
    /\ passes = <<>>
    /\ missing = {}
    /\ NotRun
    /\ NoClassifier
    /\ NoDiff
    /\ NoHarness

\* A fragment is typed at the end of the SQL text.
TypeSql ==
    /\ pc = "input"
    /\ Len(parts) < MaxSqlParts
    /\ \E p \in SqlParts :
          /\ parts' = Append(parts, p)
          /\ sql_text' = sql_text \o p
    /\ UNCHANGED <<pc, arg_db_name, arg_schema_name, passes, classifierVars, diffVars,
                 use_manifest, procVars, harnessVars>>

\* normalize_sql is called on the text.
NormalizeSql ==
    /\ pc = "input"
    /\ pc' = "done"
    /\ passes' = << normalize_sql(sql_text, arg_db_name, arg_schema_name) >>
    /\ UNCHANGED <<parts, arg_db_name, sql_text, arg_schema_name, classifierVars, diffVars,
                 use_manifest, procVars, harnessVars>>

\* normalize_sql is called on the text it returned.
NormalizeAgain ==
    /\ pc = "done"
    /\ Len(passes) = 1
    /\ passes' = Append(passes, normalize_sql(passes[1], arg_db_name, arg_schema_name))
    /\ UNCHANGED <<pc, parts, arg_db_name, sql_text, arg_schema_name, classifierVars, diffVars,
                 use_manifest, procVars, harnessVars>>

NextNorm == TypeSql \/ NormalizeSql \/ NormalizeAgain

SpecNorm == InitNorm /\ [][NextNorm]_vars

---------------------------------------------------------------------------
\* compiled_sql_diff.py on two compiled trees: SpecDiff. The file of model
\* "m" is typed in both trees at once: text both share, a schema-qualified
\* prefix with each target's own schema (after a space, so that it starts a
\* word), a batch id of each compilation.

InitDiff ==
    /\ pc = "input"
    /\ parts = <<>>
    /\ arg_db_name = N_tpch
    /\ base_tree = [path \in {"m"} |-> <<>>]
    /\ current_tree = [path \in {"m"} |-> <<>>]
    /\ diff_findings = <<>>
    /\ use_manifest \in BOOLEAN
    /\ missing = {}
    /\ NotRun
    /\ NoClassifier
    /\ NoNormalizer
    /\ NoHarness

TypeBoth(kind, base_text, current_text) ==
    /\ parts' = Append(parts, kind)
    /\ base_tree' = [base_tree EXCEPT !["m"] = @ \o base_text]
    /\ current_tree' = [current_tree EXCEPT !["m"] = @ \o current_text]

TypeShared ==
    /\ pc = "input"
    /\ Len(parts) < MaxSqlParts
    /\ \E p \in SharedParts : TypeBoth("shared", p, p)
    /\ UNCHANGED <<pc, arg_db_name, diff_findings, classifierVars, normVars,
                 use_manifest, procVars, harnessVars>>

TypeSchemaRef ==
    /\ pc = "input"
    /\ Len(parts) < MaxSqlParts
    /\ \/ TypeBoth("ref", P_space \o DottedRef(arg_db_name, BaseSchema),
                          P_space \o DottedRef(arg_db_name, CurrentSchema))
       \/ TypeBoth("ref", P_space \o QuotedRef(BaseSchema) \o <<".">>,
                          P_space \o QuotedRef(CurrentSchema) \o <<".">>)
    /\ UNCHANGED <<pc, arg_db_name, diff_findings, classifierVars, normVars,
                 use_manifest, procVars, harnessVars>>

TypeBatchId ==
    /\ pc = "input"
    /\ Len(parts) < MaxSqlParts
    /\ TypeBoth("batch", BatchId(<<"1", "a">>), BatchId(<<"2", "b">>))
    /\ UNCHANGED <<pc, arg_db_name, diff_findings, classifierVars, normVars,
                 use_manifest, procVars, harnessVars>>

\* The current text gets a line the base text does not have, one that starts
\* with two plus signs.
TypeAddedLine ==
    /\ pc = "input"
    /\ Len(parts) < MaxSqlParts
    /\ TypeBoth("added", P_newline, P_newline \o <<"+", "+", "1">>)
    /\ UNCHANGED <<pc, arg_db_name, diff_findings, classifierVars, normVars,
                 use_manifest, procVars, harnessVars>>

\* compiled_sql_diff.py main(): the existence checks of the directory mode
\* (the manifest mode opens its two files unchecked, the base one first), the
\* diff of the mode chosen, and the document printed.
DiffMain ==
    /\ pc = "input"
    /\ IF missing # {}
       THEN LET gone == IF "base" \in missing THEN "base" ELSE "current"
            IN  /\ pc' = "failed"
                /\ stderr' = stderr \o (IF use_manifest THEN Traceback(gone)
                                                        ELSE DirectoryNotFound(gone))
                /\ exit_code' = 1
                /\ UNCHANGED <<diff_findings, stdout>>
       ELSE \E json_output \in BOOLEAN :
            LET findings ==
                    IF use_manifest
                    THEN diff_manifests(base_tree, current_tree, arg_db_name,
                                        BaseSchema, CurrentSchema)
                    ELSE diff_compiled_files(base_tree, current_tree, arg_db_name,
                                             BaseSchema, CurrentSchema)
                approach == IF use_manifest THEN "manifest compiled_code diff"
                                            ELSE "compiled file diff"
            IN  /\ pc' = "done"
                /\ diff_findings' = findings
                /\ stdout' = Append(stdout, IF json_output
                                            THEN JsonOutput(findings, approach)
                                            ELSE format_report(findings, approach))
                /\ exit_code' = 0
                /\ UNCHANGED stderr
    /\ UNCHANGED <<parts, arg_db_name, base_tree, current_tree, classifierVars, normVars,
                   use_manifest, missing, harnessVars>>

NextDiff == TypeShared \/ TypeSchemaRef \/ TypeBatchId \/ TypeAddedLine \/ DiffMain

SpecDiff == InitDiff /\ [][NextDiff]_vars

---------------------------------------------------------------------------
\* compiled_sql_diff.py on two trees (or two manifests) that are filled file
\* by file (node by node): SpecFiles. Either path given may not exist.

\* The keys of a tree: the *.sql files (model nodes) of SqlPaths, and a file
\* that is not *.sql (a node that is no model of the project).
TreePaths == {"m", "n", "t"}

\* What a compiled file holds: nothing; SQL that differs between the
\* targets in its schema prefix only; SQL that names the target's schema
\* outside any prefix.
FileKinds == {"empty", "clean", "env"}

FileText(kind, schema) ==
    CASE kind = "empty" -> <<>>
      [] kind = "clean" -> P_select \o DottedRef(N_tpch, schema) \o P_orders
      [] kind = "env"   -> P_select \o schema

InitFiles ==
    /\ pc = "input"
    /\ parts = <<>>
    /\ arg_db_name = N_tpch
    /\ use_manifest \in BOOLEAN
    /\ missing \in SUBSET {"base", "current"}
    /\ base_tree = <<>>
    /\ current_tree = <<>>
    /\ diff_findings = <<>>
    /\ NotRun
    /\ NoClassifier
    /\ NoNormalizer
    /\ NoHarness

AddBaseFile ==
    /\ pc = "input"
    /\ "base" \notin missing
    /\ \E path \in TreePaths \ DOMAIN base_tree, kind \in FileKinds :
          base_tree' = base_tree @@ (path :> FileText(kind, BaseSchema))
    /\ UNCHANGED <<pc, parts, arg_db_name, current_tree, diff_findings, classifierVars,
                   normVars, use_manifest, procVars, harnessVars>>

AddCurrentFile ==
    /\ pc = "input"
    /\ "current" \notin missing
    /\ \E path \in TreePaths \ DOMAIN current_tree, kind \in FileKinds :
          current_tree' = current_tree @@ (path :> FileText(kind, CurrentSchema))
    /\ UNCHANGED <<pc, parts, arg_db_name, base_tree, diff_findings, classifierVars,
                   normVars, use_manifest, procVars, harnessVars>>

NextFiles == AddBaseFile \/ AddCurrentFile \/ DiffMain

SpecFiles == InitFiles /\ [][NextFiles]_vars

---------------------------------------------------------------------------
\* compare_detection_approaches.py: SpecHarness. The three runs the harness
\* invokes are its inputs: each returns an exit code and a standard output.

ground_truth ==
    {"metrics_daily_shipments", "metrics_shipping_efficiency",
     "metrics_regional_revenue", "metrics_order_summary"}

safe_models == {"metrics_daily_orders"}

\* The sets of model names a run may flag.
FlaggedSets ==
    {ground_truth, ground_truth \cup safe_models,
     ground_truth \ {"metrics_daily_shipments"}, {}, {"stg_orders"},
     ground_truth \cup {"stg_orders"}}

\* What a run may print: text that is no JSON, or a JSON object holding the
\* flagged models under one key.
NotJson == [json |-> FALSE, key |-> "", names |-> {}]

JsonDocs ==
    {[json |-> TRUE, key |-> key, names |-> names] :
        key \in {"sql_findings", "non_deterministic"}, names \in FlaggedSets}

\* subprocess.run(...): the exit code and the standard output of a run.
RunResults ==
    {[returncode |-> 1, stdout |-> NotJson]}
    \cup {[returncode |-> 0, stdout |-> doc] : doc \in {NotJson} \cup JsonDocs}

\* The body both run_jinja_scanning and run_compiled_diff share: the script
\* invoked and the key read differ. A non-zero exit is printed to standard
\* error and gives the empty set; json.loads and data[key] raise on output
\* of another form.
FlaggedOf(result, script, key) ==
    IF result.returncode # 0
    THEN [raised |-> "", flagged |-> {}, errors |-> << Message("error", script, "") >>]
    ELSE IF ~result.stdout.json
    THEN [raised |-> "JSONDecodeError", flagged |-> {}, errors |-> <<>>]
    ELSE IF result.stdout.key # key
    THEN [raised |-> "KeyError", flagged |-> {}, errors |-> <<>>]
    ELSE [raised |-> "", flagged |-> result.stdout.names, errors |-> <<>>]

run_jinja_scanning(result) == FlaggedOf(result, "detect_base_mode.py", "sql_findings")

run_compiled_diff(result) == FlaggedOf(result, "compiled_sql_diff.py", "non_deterministic")

\* The four counts main() prints for an approach.
Scores(label, flagged_set) ==
    [label |-> label,
     flagged |-> flagged_set,
     tp |-> Cardinality(ground_truth \cap flagged_set),
     fn |-> Cardinality(ground_truth \ flagged_set),
     fp |-> Cardinality(flagged_set \ ground_truth),
     safe_ok |-> Cardinality(safe_models \ flagged_set)]

Approaches == <<"jinja", "diff", "diff_fr">>

\* "Summary": a row per approach, acc = correct / total * 100 kept as an
\* exact fraction.
Summary(all_flagged) ==
    [k \in 1..Len(Approaches) |->
        LET row == Scores(Approaches[k], all_flagged[Approaches[k]])
            total == Cardinality(ground_truth) + Cardinality(safe_models)
        IN  [label |-> row.label, tp |-> row.tp, fn |-> row.fn, fp |-> row.fp,
             acc |-> [num |-> (row.tp + row.safe_ok) * 100, den |-> total]]]

InitHarness ==
    /\ pc = "jinja"
    /\ parts = <<>>
    /\ arg_db_name = <<>>
    /\ missing = {}
    /\ NotRun
    /\ flagged = <<>>
    /\ NoClassifier
    /\ NoNormalizer
    /\ NoDiff

\* One run of main(): the call, then either the uncaught exception, which
\* ends the harness with a traceback, or the block printed for the approach
\* and, after the last approach, the summary.
HarnessRun(approach, run, next_pc) ==
    /\ pc = approach
    /\ IF run.raised # ""
       THEN /\ pc' = "failed"
            /\ stderr' = stderr \o << Message("traceback", run.raised, "") >>
            /\ exit_code' = 1
            /\ UNCHANGED <<flagged, stdout>>
       ELSE /\ pc' = next_pc
            /\ stderr' = stderr \o run.errors
            /\ flagged' = flagged @@ (approach :> run.flagged)
            /\ stdout' = stdout \o << Scores(approach, run.flagged) >>
                         \o (IF next_pc = "done" THEN << Summary(flagged') >> ELSE <<>>)
            /\ exit_code' = IF next_pc = "done" THEN 0 ELSE exit_code
    /\ UNCHANGED <<parts, arg_db_name, use_manifest, missing,
                   classifierVars, normVars, diffVars>>

\* "Approach 1: Jinja Pattern Scanning".
RunJinjaScanning ==
    \E result \in RunResults : HarnessRun("jinja", run_jinja_scanning(result), "diff")

\* "Approach 2a: Compiled SQL Diff (existing tables)".
RunCompiledDiff ==
    \E result \in RunResults : HarnessRun("diff", run_compiled_diff(result), "diff_fr")

\* "Approach 2b: Compiled SQL Diff (--full-refresh)" and the summary.
RunCompiledDiffFullRefresh ==
    \E result \in RunResults : HarnessRun("diff_fr", run_compiled_diff(result), "done")

NextHarness == RunJinjaScanning \/ RunCompiledDiff \/ RunCompiledDiffFullRefresh

SpecHarness == InitHarness /\ [][NextHarness]_vars

---------------------------------------------------------------------------
\* SQL comments as a SQL lexer sees them, to state what the scanner's
\* comment stripping is meant to achieve: each character of the text is
\* tagged "code", "string" (a '...' literal), "line" (a -- comment up to the
\* end of the line), "block" (a closed /* */ comment) or "openblock" (from
\* an unclosed /* to the end).

Repeat(tag, n) == [k \in 1..n |-> tag]

RECURSIVE LexFrom(_, _)
LexFrom(s, i) ==
    LET starts == {j \in i..Len(s) : \/ MatchLit(s, j, <<"-", "-">>)
                                      \/ MatchLit(s, j, <<"/", "*">>)
                                      \/ s[j] = "'"}
        t == SetMin(starts)
        quotes == {j \in (t + 1)..Len(s) : s[j] = "'"}
    IN  IF starts = {} THEN Repeat("code", Len(s) + 1 - i)
        ELSE Repeat("code", t - i) \o
             (IF MatchLit(s, t, <<"-", "-">>)
              THEN Repeat("line", LineEnd(s, t + 2) - t) \o LexFrom(s, LineEnd(s, t + 2))
              ELSE IF MatchLit(s, t, <<"/", "*">>)
              THEN IF BlockClosers(s, t) # {}
                   THEN Repeat("block", SetMin(BlockClosers(s, t)) + 2 - t)
                        \o LexFrom(s, SetMin(BlockClosers(s, t)) + 2)
                   ELSE Repeat("openblock", Len(s) + 1 - t)
              ELSE IF quotes = {}
                   THEN Repeat("string", Len(s) + 1 - t)
                   ELSE Repeat("string", SetMin(quotes) + 1 - t)
                        \o LexFrom(s, SetMin(quotes) + 1))

Lex(s) == LexFrom(s, 1)

\* The first and last position of each match of \btarget\s*\.\s*<attr>\b.
TargetAttrSpans(s, attr) ==
    {<<i, SkipSpace(s, SkipSpace(s, i + Len(L_target)) + 1) + Len(attr) - 1>> :
        i \in {j \in 1..Len(s) : TargetAttrAt(s, j, attr)}}

\* A clock call stands at position i, whatever follows it.
ClockCallAt(s, i) == WordBoundary(s, i) /\ ClockAlternativeEnds(s, i) # {}

ClockCallSpans(s) ==
    UNION {{<<i, e - 1>> : e \in ClockAlternativeEnds(s, i)} :
              i \in {j \in 1..Len(s) : WordBoundary(s, j)}}

SignatureSpans(s) ==
    TargetAttrSpans(s, L_name) \cup TargetAttrSpans(s, L_schema) \cup ClockCallSpans(s)

\* The raw_code of the scanned model "m".
RawCode == manifest.nodes[1].raw_code

\* Some finding carries the pattern of this name.
Found(name) ==
    \E k \in 1..Len(sql_findings) :
        \E n \in 1..Len(sql_findings[k].patterns) : sql_findings[k].patterns[n].name = name

SignatureNames == {"target.name", "target.schema", "current_date/now"}

SignaturePieces == {P_target_name, P_now, P_tar, P_get_name}

\* The source is typed from the two markers, comment delimiters, newlines
\* and string literals only, and holds a marker.
OnlyMarkers ==
    /\ \A k \in 1..Len(parts) : parts[k] \notin SignaturePieces
    /\ \E k \in 1..Len(parts) : parts[k] \in MarkerParts

---------------------------------------------------------------------------
\* The claims.

\* What the claims call event-time coverage: 100% when every source of a
\* project with sources has event_time, below 100% otherwise (0% without
\* sources, as classify computes it).
Coverage100 ==
    /\ source_analysis.total_sources > 0
    /\ source_analysis.with_event_time = source_analysis.total_sources

\* C1: classify() recommends isolated_base exactly when the finding list of
\* the pattern scanner is non-empty and shared_base exactly when it is empty,
\* whatever the materialization counts, the snapshots, the event-time
\* coverage and the number of models are.
C1_RecommendationFollowsScanner ==
    pc = "done" =>
        /\ classification.recommendation = "isolated_base" <=> sql_findings # <<>>
        /\ classification.recommendation = "shared_base" <=> sql_findings = <<>>

\* C1 witness: a large project with an incremental model, a snapshot and a
\* source, no model flagged: shared_base.
C1_Witness ==
    /\ pc = "done"
    /\ sql_findings = <<>>
    /\ model_analysis.materialization_counts["incremental"] > 0
    /\ model_analysis.snapshot_models # <<>>
    /\ model_analysis.total_models > ScaleThreshold
    /\ classification.recommendation = "shared_base"

\* C2: confidence is high when no model is flagged or when models are flagged
\* and event-time coverage is 100%; it is medium when models are flagged and
\* coverage is below 100% (a project without sources included); no other
\* value is returned.
C2_ConfidenceRule ==
    pc = "done" =>
        /\ classification.confidence \in {"high", "medium"}
        /\ (sql_findings = <<>> \/ Coverage100) => classification.confidence = "high"
        /\ (sql_findings # <<>> /\ ~Coverage100) => classification.confidence = "medium"

\* C2 witness: a project without sources and with a flagged model: medium.
C2_Witness ==
    /\ pc = "done"
    /\ sql_findings # <<>>
    /\ source_analysis.total_sources = 0
    /\ classification.confidence = "medium"

\* A further flagged model, as scan_sql_patterns would report it.
ExtraFindings ==
    {[name |-> "z", materialized |-> mat,
      patterns |-> << [name |-> "target.name", weight |-> "strong"] >>] :
        mat \in {"table", "incremental"}}

\* C3: classifier monotonicity: with one more flagged model added to the
\* finding list, the model and source analysis unchanged, a recommendation
\* of isolated_base stays isolated_base, and a confidence of medium becomes
\* high only if event-time coverage is 100%.
C3_Monotonicity ==
    pc = "done" =>
        \A f \in ExtraFindings :
            LET more == classify(model_analysis, source_analysis, Append(sql_findings, f))
            IN  /\ classification.recommendation = "isolated_base"
                       => more.recommendation = "isolated_base"
                /\ (classification.confidence = "medium" /\ more.confidence = "high")
                       => Coverage100

\* C3 witness: isolated_base with confidence medium, the case both halves of
\* the claim are about.
C3_Witness ==
    /\ pc = "done"
    /\ classification.recommendation = "isolated_base"
    /\ classification.confidence = "medium"
    /\ source_analysis.total_sources > 0

\* C4: pattern-scanner precision: a source that holds the conditional-
\* materialization marker or the self-reference marker and no target-name,
\* target-schema or clock reference yields no finding, and no finding ever
\* carries a pattern other than the three signatures.
C4_MarkersNotFlagged ==
    pc = "done" =>
        /\ OnlyMarkers => sql_findings = <<>>
        /\ \A k \in 1..Len(sql_findings) :
              \A n \in 1..Len(sql_findings[k].patterns) :
                  sql_findings[k].patterns[n].name \in SignatureNames

\* C4 witness: a scanned source with both markers and no finding.
C4_Witness ==
    /\ pc = "done"
    /\ OnlyMarkers
    /\ \E k \in 1..Len(parts) : parts[k] = P_is_incremental
    /\ \E k \in 1..Len(parts) : parts[k] = P_this
    /\ sql_findings = <<>>

\* C5: pattern-scanner recall: if a dotted target-name reference stands
\* anywhere outside a SQL comment, whatever precedes it, the model's finding
\* carries the target.name signature.
C5_TargetNameOutsideCommentFound ==
    pc = "done" =>
        ((\E i \in 1..Len(RawCode) :
              /\ TargetAttrAt(RawCode, i, L_name)
              /\ Lex(RawCode)[i] \in {"code", "string"})
         => Found("target.name"))

\* C6: a source in which every signature occurrence lies inside a -- line
\* comment or a closed /* */ block comment yields no finding.
C6_CommentedSignaturesNotFound ==
    pc = "done" =>
        ((\A span \in SignatureSpans(RawCode) :
              /\ Lex(RawCode)[span[1]] \in {"line", "block"}
              /\ Lex(RawCode)[span[2]] \in {"line", "block"})
         => sql_findings = <<>>)

\* C7: a source whose comment-stripped text holds current_date,
\* current_timestamp, now() or getdate(), in any letter case and whatever
\* follows the call, yields a finding with the clock signature, weight
\* moderate.
C7_ClockCallFound ==
    pc = "done" =>
        ((\E i \in 1..Len(strip_sql_comments(RawCode)) :
              ClockCallAt(strip_sql_comments(RawCode), i))
         => \E k \in 1..Len(sql_findings) :
                \E n \in 1..Len(sql_findings[k].patterns) :
                    sql_findings[k].patterns[n] =
                        [name |-> "current_date/now", weight |-> "moderate"])

\* The texts of one call of normalize_sql: what the schema step (b)/(c)
\* receives, the comments stripped, and what it returns.
SchemaStepIn == strip_sql_comments(sql_text)

SchemaStepOut == ReplaceSchemaRefs(SchemaStepIn, arg_db_name, arg_schema_name)

\* The positions where lit stands in s.
Occurrences(s, lit) == {i \in 1..Len(s) : MatchLit(s, i, lit)}

\* The occurrence of lit at position i of s stands in the dotted shape
\* <db>.<lit>. or in the double-quoted shape "<lit>".
Shaped(s, i, lit, db) ==
    \/ /\ db # <<>>
       /\ MatchLit(s, i - Len(db) - 1, db \o <<".">>)
       /\ MatchLit(s, i + Len(lit), <<".">>)
    \/ /\ MatchLit(s, i - 1, <<"\"">>)
       /\ MatchLit(s, i + Len(lit), <<"\"">>)

\* C8: normalization idempotence: normalize_sql applied to the text it
\* returned, with the same database and schema name, returns that text.
C8_NormalizeIdempotent ==
    Len(passes) = 2 => passes[2] = passes[1]

\* C9: keyword safety: the schema step of normalize_sql touches nothing but
\* occurrences of the schema name (putting the name back in place of each
\* placeholder gives the text the step received), and every occurrence it
\* rewrote stood in the <db>.<schema>. or the "<schema>" shape; so the text
\* returned holds at least as many schema names as the text had unshaped
\* ones, and every "current row" keyword of the text, the schema being
\* "current".
C9_KeywordSafety ==
    pc = "done" =>
        /\ SubLiteralFrom(SchemaStepOut, 1, L_schema_placeholder, arg_schema_name, FALSE)
               = SchemaStepIn
        /\ \A i \in Occurrences(SchemaStepOut, L_schema_placeholder) :
               Shaped(SchemaStepOut, i, L_schema_placeholder, arg_db_name)
        /\ Cardinality(Occurrences(passes[1], arg_schema_name))
               >= Cardinality({i \in Occurrences(SchemaStepIn, arg_schema_name) :
                                  ~Shaped(SchemaStepIn, i, arg_schema_name, arg_db_name)})
        /\ Cardinality(Occurrences(passes[1], L_current_row))
               = Cardinality(Occurrences(SchemaStepIn, L_current_row))

\* C9 witness: a text with a schema-qualified reference and a "current row"
\* keyword, normalized with the database name known: the reference is
\* rewritten, the keyword is still there.
C9_Witness ==
    /\ pc = "done"
    /\ arg_db_name = N_tpch
    /\ Occurrences(SchemaStepIn, L_current_row) # {}
    /\ \E i \in Occurrences(SchemaStepIn, arg_schema_name) :
           Shaped(SchemaStepIn, i, arg_schema_name, arg_db_name)
    /\ Occurrences(passes[1], L_schema_placeholder) # {}
    /\ Occurrences(passes[1], L_current_row) # {}

\* C10: diff-engine equivalence: a base text and a current text that are the
\* same but for schema-qualified prefixes, with the base schema in one and
\* the current schema in the other, and for their batch ids, give no finding.
C10_DiffEngineEquivalence ==
    (pc = "done" /\ "ref" \in Range(parts) /\ "batch" \in Range(parts)
                 /\ "added" \notin Range(parts))
        => diff_findings = <<>>

\* The sum of the five materialization bucket counts.
BucketSum(counts) ==
    counts["table"] + counts["view"] + counts["ephemeral"]
        + counts["incremental"] + counts["other"]

\* C11: after analyze_models the five bucket counts add up to total_models,
\* also when two retained nodes of different unique ids carry one name.
C11_BucketSumIsTotal ==
    pc = "done" =>
        BucketSum(model_analysis.materialization_counts) = model_analysis.total_models

\* The nodes of the manifest the claims call retained, and those among them
\* that are models.
IsRetainedNode(node) ==
    /\ node.resource_type \in {"model", "snapshot"}
    /\ node.package_name = manifest.project_name

IsRetainedModel(node) == IsRetainedNode(node) /\ node.resource_type = "model"

IsRetainedSnapshot(node) == IsRetainedNode(node) /\ node.resource_type = "snapshot"

IsRetainedIncremental(node) == IsRetainedModel(node) /\ node.materialized = "incremental"

NamesOf(nodes) == [k \in 1..Len(nodes) |-> nodes[k].name]

\* C12: analyze_models retains exactly the model and snapshot nodes of the
\* manifest's own project: the snapshot list names the retained snapshots,
\* the incremental list the retained incremental models, the model map the
\* retained models and nothing else, and the bucket counts count the
\* retained model nodes only (the unlisted clean tables of a large project
\* included); no snapshot is in the model map or in a bucket.
C12_RetentionFilter ==
    pc = "done" =>
        /\ model_analysis.snapshot_models
               = NamesOf(SelectSeq(manifest.nodes, IsRetainedSnapshot))
        /\ model_analysis.incremental_models
               = NamesOf(SelectSeq(manifest.nodes, IsRetainedIncremental))
        /\ Range(NamesOf(model_analysis.models))
               = Range(NamesOf(SelectSeq(manifest.nodes, IsRetainedModel)))
        /\ BucketSum(model_analysis.materialization_counts)
               = Len(SelectSeq(manifest.nodes, IsRetainedModel)) + manifest.filler
        /\ \A k \in 1..Len(model_analysis.models) :
               model_analysis.models[k].materialized # "snapshot"

\* C12 witness: a manifest with a model of an imported package and a
\* snapshot of the project: the snapshot is listed, the model map is empty.
C12_Witness ==
    /\ pc = "done"
    /\ \E k \in 1..Len(manifest.nodes) : manifest.nodes[k].package_name # manifest.project_name
    /\ \E k \in 1..Len(manifest.nodes) : IsRetainedSnapshot(manifest.nodes[k])
    /\ model_analysis.snapshot_models # <<>>
    /\ model_analysis.models = <<>>

\* The diff engine reported this model with this status and an empty diff.
ReportedMissing(model, status) ==
    \E k \in 1..Len(diff_findings) : diff_findings[k] = Finding(model, status, <<>>)

\* C13: in the directory mode and in the manifest mode alike, a model of the
\* base side that the current side lacks is reported missing_in_current with
\* an empty diff, and a model of the current side that the base side lacks
\* is reported missing_in_base with an empty diff.
C13_MissingModelsReported ==
    pc = "done" =>
        \A model \in Range(SqlPaths) :
            /\ (model \in DOMAIN base_tree /\ model \notin DOMAIN current_tree)
                   => ReportedMissing(model, "missing_in_current")
            /\ (model \in DOMAIN current_tree /\ model \notin DOMAIN base_tree)
                   => ReportedMissing(model, "missing_in_base")

\* The harness wrote this script's failure to standard error.
FailureLogged(script) ==
    \E k \in 1..Len(stderr) : stderr[k] = Message("error", script, "")

\* C14: whatever the three runs of the harness return (a non-zero exit,
\* output that is no JSON, JSON of another shape), the harness performs all
\* three runs and prints the summary, an approach whose run failed having
\* the empty flagged set and its failure being written to standard error.
C14_HarnessSurvivesFailedRuns ==
    /\ pc # "failed"
    /\ pc = "done" =>
          /\ DOMAIN flagged = Range(Approaches)
          /\ \E k \in 1..Len(stdout) : stdout[k] = Summary(flagged)

\* The lines on standard error name a path that is missing, and name the
\* external command that produces it.
MissingPathNamed == \E k \in 1..Len(stderr) : stderr[k].path \in missing

CommandNamed == \E k \in 1..Len(stderr) : stderr[k].command # ""

\* C15: a run whose required input path does not exist exits with code 1,
\* having written to standard error a message that names the missing path
\* and the external command that produces it, and prints no report; a run
\* whose inputs all exist exits with code 0 whatever it found.
C15_ExitCodes ==
    /\ pc = "failed" =>
          /\ missing # {}
          /\ exit_code = 1
          /\ MissingPathNamed
          /\ CommandNamed
          /\ stdout = <<>>
    /\ pc = "done" =>
          /\ missing = {}
          /\ exit_code = 0

\* The findings of the run that are about content, not about a missing model.
ContentFindings == SelectSeq(diff_findings, IsNonDeterministic)

NotMissingFindings == SelectSeq(diff_findings, LAMBDA f : ~IsMissing(f))

\* C16: no count the diff engine prints for findings or non-deterministic
\* models includes a missing_in_base or missing_in_current entry: in the
\* JSON document total_findings is the length of the non_deterministic
\* list, and in the report the count of non-deterministic models and the
\* total are counts of findings that are not missing-model entries.
C16_MissingCountedApart ==
    pc = "done" =>
        \A k \in 1..Len(stdout) :
            IF stdout[k].format = "json"
            THEN /\ stdout[k].total_findings = Len(stdout[k].non_deterministic)
                 /\ Len(stdout[k].non_deterministic) = Len(ContentFindings)
            ELSE /\ stdout[k].non_deterministic_models = Len(ContentFindings)
                 /\ stdout[k].total_checked = Len(NotMissingFindings)

\* The signals of the classification that carry this key.
SignalsOf(key) == SelectSeq(classification.signals, LAMBDA sig : sig.signal = key)

\* C17: the safe_incremental signal is in the signal list only when the
\* recommendation is isolated_base; a project without any flagged model
\* never gets it.
C17_SafeIncrementalOnlyWhenIsolated ==
    pc = "done" =>
        (SignalsOf("safe_incremental") # <<>>
            => /\ classification.recommendation = "isolated_base"
               /\ sql_findings # <<>>)

\* C18: classify emits at most one event_time_coverage signal: none without
\* sources; moderate, enables_isolation when every source has event_time;
\* weak, partial_isolation when some but not all have it; moderate,
\* blocks_sample when none has it.
C18_EventTimeSignal ==
    pc = "done" =>
        LET total == source_analysis.total_sources
            with == source_analysis.with_event_time
        IN  SignalsOf("event_time_coverage") =
                IF total = 0 THEN <<>>
                ELSE IF with = total
                THEN << Signal("event_time_coverage", "moderate", "enables_isolation") >>
                ELSE IF with > 0
                THEN << Signal("event_time_coverage", "weak", "partial_isolation") >>
                ELSE << Signal("event_time_coverage", "moderate", "blocks_sample") >>

\* C18 witness: two sources, one of them with event_time: the weak
\* partial_isolation signal.
C18_Witness ==
    /\ pc = "done"
    /\ source_analysis.total_sources = 2
    /\ source_analysis.with_event_time = 1
    /\ SignalsOf("event_time_coverage")
           = << Signal("event_time_coverage", "weak", "partial_isolation") >>

\* The model nodes of the project, as the manifest lists them.
RetainedModels == SelectSeq(manifest.nodes, IsRetainedModel)

\* Every model of the project is a view (the project has a model); the
\* project has a table model.
AllViews ==
    /\ RetainedModels # <<>>
    /\ manifest.filler = 0
    /\ \A k \in 1..Len(RetainedModels) : RetainedModels[k].materialized = "view"

AnyTable ==
    \/ manifest.filler > 0
    \/ \E k \in 1..Len(RetainedModels) : RetainedModels[k].materialized = "table"

\* C19: materialization-profile rule: with no model flagged and every model
\* a view, the moderate all_views signal toward shared_base is emitted;
\* otherwise, with no model flagged and a table model, the weak table_models
\* signal toward shared_base; with a model flagged, neither; never both.
C19_MaterializationProfile ==
    pc = "done" =>
        /\ (sql_findings = <<>> /\ AllViews)
               => SignalsOf("all_views") = << Signal("all_views", "moderate", "shared_base") >>
        /\ (sql_findings = <<>> /\ ~AllViews /\ AnyTable)
               => SignalsOf("table_models")
                      = << Signal("table_models", "weak", "shared_base") >>
        /\ sql_findings # <<>>
               => SignalsOf("all_views") = <<>> /\ SignalsOf("table_models") = <<>>
        /\ SignalsOf("all_views") = <<>> \/ SignalsOf("table_models") = <<>>

\* An occurrence of lit at i that opens with the closing quote of a
\* rewritten identifier: it overlapped the identifier that was rewritten.
OverlapsRewritten(s, i) ==
    MatchLit(s, i - Len(L_schema_placeholder) - 1, QuotedRef(L_schema_placeholder))

\* C20: whenever the schema name is non-empty, with or without a database
\* name, no double-quoted "<schema>" is left in the text normalize_sql
\* returns (each has become "__SCHEMA__", occurrences that overlap a
\* rewritten one aside); the dotted <db>.<schema>. is left alone when the
\* database name is empty.
C20_QuotedSchemaWithoutDatabase ==
    (pc = "done" /\ arg_schema_name # <<>>) =>
        /\ \A i \in Occurrences(passes[1], QuotedRef(arg_schema_name)) :
               OverlapsRewritten(passes[1], i)
        /\ Occurrences(SchemaStepIn, QuotedRef(arg_schema_name)) # {}
               => Occurrences(passes[1], QuotedRef(L_schema_placeholder)) # {}
        /\ arg_db_name = <<>> =>
               Occurrences(passes[1], <<".">> \o L_schema_placeholder \o <<".">>) = {}

\* C21: every record of analyze_models has a materialization kind among
\* table, view, ephemeral, incremental, other, and the keys of the
\* by_materialization breakdown are among those five kinds.
C21_KindsAreTheFiveBuckets ==
    pc = "done" =>
        /\ \A k \in 1..Len(model_analysis.models) :
               model_analysis.models[k].materialized \in Buckets
        /\ DOMAIN classification.conditional_models.by_materialization \subseteq Buckets

\* The rule a signal key belongs to.
RuleOf(key) ==
    CASE key \in {"non_deterministic_sql", "deterministic_sql"} -> 1
      [] key = "safe_incremental" -> 2
      [] key \in {"all_views", "table_models"} -> 3
      [] key = "event_time_coverage" -> 4
      [] key = "project_scale" -> 5
      [] OTHER -> 0

\* C22: the signals of a classification stand in rule order 1 to 5: the
\* first is the strong scanner signal (non_deterministic_sql or
\* deterministic_sql), then, when present, safe_incremental, the
\* materialization-profile signal, event_time_coverage, project_scale; no
\* rule, and so no key, appears twice.
C22_SignalOrder ==
    pc = "done" =>
        LET signals == classification.signals
        IN  /\ signals # <<>>
            /\ RuleOf(signals[1].signal) = 1
            /\ signals[1].weight = "strong"
            /\ \A k \in 1..Len(signals) : RuleOf(signals[k].signal) \in 1..5
            /\ \A j, k \in 1..Len(signals) :
                   j < k => RuleOf(signals[j].signal) < RuleOf(signals[k].signal)

\* C22 witness: a classification that carries a signal of each of the five
\* rules.
C22_Witness ==
    /\ pc = "done"
    /\ Len(classification.signals) = 5
    /\ classification.signals[5].signal = "project_scale"

\* C23: a model whose base text and current text are the same, character
\* for character, gets no finding from the diff engine.
C23_IdenticalTextsNoFinding ==
    pc = "done" =>
        \A path \in DOMAIN base_tree \cap DOMAIN current_tree :
            base_tree[path] = current_tree[path]
                => \A k \in 1..Len(diff_findings) : diff_findings[k].model # path

\* The summary the harness printed: the last document on standard output.
PrintedSummary == stdout[Len(stdout)]

\* C24: in the harness summary an approach whose accuracy is 100% has no
\* false negative and no false positive: the set it flagged is the
\* ground-truth set.
C24_FullAccuracyIsExactMatch ==
    pc = "done" =>
        \A k \in 1..Len(PrintedSummary) :
            LET row == PrintedSummary[k]
            IN  row.acc.num = 100 * row.acc.den
                    => /\ row.fn = 0
                       /\ row.fp = 0
                       /\ flagged[row.label] = ground_truth

\* C25: every non_deterministic finding has a non-empty diff_lines, which is
\* the added and removed lines of the unified diff of the two normalized
\* texts: all of them, and no other line.
C25_DiffLinesAreTheChangedLines ==
    pc = "done" =>
        \A k \in 1..Len(diff_findings) :
            LET f == diff_findings[k]
            IN  IsNonDeterministic(f) =>
                    /\ f.diff_lines # <<>>
                    /\ f.diff_lines =
                           UnifiedDiffBody(
                               normalize_sql(base_tree[f.model], arg_db_name, BaseSchema),
                               normalize_sql(current_tree[f.model], arg_db_name, CurrentSchema))

\* C26: in manifest mode a model of the project that both manifests hold
\* under one unique id is reported as non_deterministic exactly when its two
\* compiled texts, each normalized with the schema name of its own
\* environment, are unequal, an empty text on one side only included.
C26_ManifestModeReportsUnequalTexts ==
    (pc = "done" /\ use_manifest) =>
        \A uid \in DOMAIN base_tree \cap DOMAIN current_tree :
            IsProjectModel(uid) =>
                ((\E k \in 1..Len(diff_findings) :
                      /\ diff_findings[k].model = uid
                      /\ IsNonDeterministic(diff_findings[k]))
                 <=> normalize_sql(base_tree[uid], arg_db_name, BaseSchema)
                         # normalize_sql(current_tree[uid], arg_db_name, CurrentSchema))

=============================================================================
